---- MODULE Spec2Model ----
(***************************************************************************)
(* A model of the gregorian crate: Year, Month, YearMonth, Date and the    *)
(* shared day-of-year tables, with Rust's machine arithmetic.              *)
(*                                                                         *)
(* Integer arithmetic is modelled with its width.  A function whose        *)
(* arithmetic can leave the width of its type returns a record             *)
(*   [val |-> the wrapped (two's complement) result, ovf |-> BOOLEAN]      *)
(* where ovf says that some +, - or * left the range.  A build with        *)
(* overflow checks (debug) panics when ovf is set, a build without         *)
(* (release) continues with val.  `as` casts wrap silently in both.        *)
(***************************************************************************)
EXTENDS Integers, Sequences, FiniteSets, TLC

VARIABLES
    origin,   \* the input the run started from (a tagged record)
    val,      \* the value the last call returned (a tagged record)
    call,     \* the last call: [op |-> name, arg |-> its argument]
    steps     \* the number of calls made so far

vars == <<origin, val, call, steps>>

----------------------------------------------------------------------------
(* Machine integers *)

I16_MIN == -(2^15)
I16_MAX == 2^15 - 1
I32_MAX == (2^30 - 1) + 2^30
I32_MIN == (-(2^30)) - 2^30

InI16(x) == I16_MIN <= x /\ x <= I16_MAX

I8_MIN == -(2^7)
I8_MAX == 2^7 - 1

InI8(x) == I8_MIN <= x /\ x <= I8_MAX

\* The wrapped result of an i8 operation whose exact value is x.
Wrap8(x) == ((x - I8_MIN) % (2^8)) + I8_MIN

\* `x as i16` / the wrapped result of an i16 operation whose exact value is x.
Wrap16(x) == ((x - I16_MIN) % (2^16)) + I16_MIN

\* Rust's `/` on signed integers truncates toward zero (b > 0 here).
TruncDiv(a, b) == IF a >= 0 \/ a % b = 0 THEN a \div b ELSE (a \div b) + 1

\* Rust's `%` on signed integers: the remainder has the sign of the dividend.
TruncRem(a, b) == a - b * TruncDiv(a, b)

\* i16 `+` and `-`.
Add16(a, b) == [val |-> Wrap16(a + b), ovf |-> ~InI16(a + b)]
Sub16(a, b) == [val |-> Wrap16(a - b), ovf |-> ~InI16(a - b)]

\* i32 `+`: the exact sum is never formed when it leaves 32 bits.
Add32(a, b) ==
    IF b > 0 /\ a > I32_MAX - b
    THEN [val |-> ((a - I32_MAX) + b - 1) + I32_MIN, ovf |-> TRUE]
    ELSE IF b < 0 /\ a < I32_MIN - b
    THEN [val |-> ((a - I32_MIN) + b + 1) + I32_MAX, ovf |-> TRUE]
    ELSE [val |-> a + b, ovf |-> FALSE]

\* i32 `-`.
Sub32(a, b) ==
    IF b > 0 /\ a < I32_MIN + b
    THEN [val |-> ((a - I32_MIN) - b + 1) + I32_MAX, ovf |-> TRUE]
    ELSE IF b < 0 /\ a > I32_MAX + b
    THEN [val |-> ((a - I32_MAX) - b - 1) + I32_MIN, ovf |-> TRUE]
    ELSE [val |-> a - b, ovf |-> FALSE]

\* An i64 is held as two limbs, [hi, lo] for hi * 2^20 + lo with
\* 0 <= lo < 2^20, since the integers of the checker have 32 bits.  The
\* model holds the i64 values below 2^50 in magnitude (|hi| <= 2^30): thirty
\* times past the seconds of the days an i32 counts.
Limb == 2^20

I64(hi, lo) == [hi |-> hi + (lo \div Limb), lo |-> lo % Limb]

\* `n as i64` of an i32 n.
I64_from_i32(n) == I64(0, n)

\* `x as i32`: the low 32 bits, as a signed number.
I64_as_i32(x) ==
    LET h == x.hi % (2^12)
    IN  (IF h >= 2^11 THEN h - 2^12 ELSE h) * Limb + x.lo

I64_less(a, b) == a.hi < b.hi \/ (a.hi = b.hi /\ a.lo < b.lo)

I64_is_negative(x) == x.hi < 0

\* x + k for a k of at most 31 bits, inside the values the model holds.
I64_add(x, k) == I64(x.hi + (k \div Limb), x.lo + (k % Limb))

\* 86400 * x (an i64 product; |x| below 2^34, so nothing overflows):
\* 86400 * 2^14 = 1350 * 2^20, and lo = lh * 2^14 + ll.
I64_times_86400(x) ==
    LET lh == x.lo \div (2^14)
        ll == x.lo % (2^14)
    IN  I64(86400 * x.hi + 1350 * lh, 86400 * ll)

\* The floored quotient and the remainder of x by 86400 = 675 * 2^7, by long
\* division: hi = qh * 675 + rh, then (rh * 2^13 + lo / 2^7) by 675.
I64_floor_by_86400(x) ==
    LET qh == x.hi \div 675
        u == (x.hi % 675) * (2^13) + (x.lo \div (2^7))
        t == u \div 675
    IN  [quot |-> [hi |-> qh \div (2^7), lo |-> (qh % (2^7)) * (2^13) + t],
         rem |-> (u % 675) * (2^7) + (x.lo % (2^7))]

\* Rust's x / 86400 on i64: truncated toward zero.
I64_div_86400(x) ==
    LET f == I64_floor_by_86400(x)
    IN  IF I64_is_negative(x) /\ f.rem # 0 THEN I64_add(f.quot, 1) ELSE f.quot

\* Result<T, E>
Ok(x) == [ok |-> TRUE, val |-> x]
Err(e) == [ok |-> FALSE, err |-> e]

----------------------------------------------------------------------------
(* util.rs *)

modulo_i16(a, b) ==
    LET s == TruncRem(a, b) + b
    IN  [val |-> TruncRem(Wrap16(s), b), ovf |-> ~InI16(s)]

\* Mutant: the plain remainder, negative for a negative dividend.
modulo_i32_truncated(a, b) == [val |-> TruncRem(a, b), ovf |-> FALSE]

modulo_i32(a, b) ==
    LET s == Add32(TruncRem(a, b), b)
    IN  [val |-> TruncRem(s.val, b), ovf |-> s.ovf]

----------------------------------------------------------------------------
(* month.rs: a Month is its discriminant, January = 1 .. December = 12 *)

January == 1
February == 2
March == 3
December == 12

Months == January .. December

Month_new(month) ==
    IF month \in 1 .. 12 THEN Ok(month) ELSE Err([number |-> month])

from_number(number) ==
    IF number \in 1 .. 12 THEN number ELSE January

\* The steps of wrapping_add, in i8 (the last one in u8): the reduced count,
\* `self.to_number() as i8 - 1 + count`, its remainder by 12, and
\* `index as u8 + 1`; ovf says that a step left the width of its type.
wrapping_add_steps(self, count) ==
    LET c == IF count < 0 THEN TruncRem(count, 12) + 12 ELSE TruncRem(count, 12)
        sum == (self - 1) + c
        index == TruncRem(sum, 12)
    IN  [count |-> c, sum |-> sum, index |-> index,
         number |-> ((index % 256) + 1) % 256,
         ovf |-> ~InI8(c) \/ ~InI8(sum) \/ (index % 256) + 1 > 255]

\* Mutant: a negative count is not brought into 1..12 first.
wrapping_add_no_shift(self, count) ==
    LET index == TruncRem((self - 1) + TruncRem(count, 12), 12)
    IN  from_number(((index % 256) + 1) % 256)

\* i8 arithmetic: count % 12 is in -11..11, so no step leaves i8.
wrapping_add(self, count) == from_number(wrapping_add_steps(self, count).number)

\* Mutant: the count is negated as it is (i8::MIN stays i8::MIN).
wrapping_sub_negated_whole(self, count) == wrapping_add(self, Wrap8(-count))

\* -(count % 12) negates a number in -11..11.
wrapping_sub(self, count) == wrapping_add(self, -TruncRem(count, 12))

wrapping_next(self) == wrapping_add(self, 1)

wrapping_prev(self) == wrapping_add(self, -1)

----------------------------------------------------------------------------
(* raw.rs *)

\* The match arms of month_and_day_from_day_of_year: <<first, last, month>>;
\* an arm returns (month, day_of_year - (first - 1)).
NonLeapArms ==
    << <<1, 31, 1>>, <<32, 59, 2>>, <<60, 90, 3>>, <<91, 120, 4>>,
       <<121, 151, 5>>, <<152, 181, 6>>, <<182, 212, 7>>, <<213, 243, 8>>,
       <<244, 273, 9>>, <<274, 304, 10>>, <<305, 334, 11>>, <<335, 365, 12>> >>

LeapArms ==
    << <<1, 31, 1>>, <<32, 60, 2>>, <<61, 91, 3>>, <<92, 121, 4>>,
       <<122, 152, 5>>, <<153, 182, 6>>, <<183, 213, 7>>, <<214, 244, 8>>,
       <<245, 274, 9>>, <<275, 305, 10>>, <<306, 335, 11>>, <<336, 366, 12>> >>

\* Mutant: the arms of a non-leap year are used for every year.
month_and_day_from_day_of_year_no_leap(day_of_year, leap_year) ==
    LET hit == {i \in 1 .. 12 :
                   NonLeapArms[i][1] <= day_of_year /\ day_of_year <= NonLeapArms[i][2]}
    IN  IF hit = {}
        THEN Err(<<>>)
        ELSE LET a == NonLeapArms[CHOOSE i \in hit : TRUE]
             IN  Ok([month |-> a[3], day |-> (day_of_year - (a[1] - 1)) % 256])

month_and_day_from_day_of_year(day_of_year, leap_year) ==
    LET arms == IF leap_year THEN LeapArms ELSE NonLeapArms
        hit == {i \in 1 .. 12 : arms[i][1] <= day_of_year /\ day_of_year <= arms[i][2]}
    IN  IF hit = {}
        THEN Err(<<>>)
        ELSE LET a == arms[CHOOSE i \in hit : TRUE]
             IN  Ok([month |-> a[3], day |-> (day_of_year - (a[1] - 1)) % 256])

\* Mutant: February never gets its leap day.
days_in_month_no_leap_day(month, leap_year) ==
    IF month = 2 THEN 28 ELSE IF month \in {4, 6, 9, 11} THEN 30 ELSE 31

days_in_month(month, leap_year) ==
    CASE month = 1 -> 31
      [] month = 2 -> (IF leap_year THEN 29 ELSE 28)
      [] month = 3 -> 31
      [] month = 4 -> 30
      [] month = 5 -> 31
      [] month = 6 -> 30
      [] month = 7 -> 31
      [] month = 8 -> 31
      [] month = 9 -> 30
      [] month = 10 -> 31
      [] month = 11 -> 30
      [] month = 12 -> 31

NonLeapStart == <<1, 32, 60, 91, 121, 152, 182, 213, 244, 274, 305, 335>>

LeapStart == <<1, 32, 61, 92, 122, 153, 183, 214, 245, 275, 306, 336>>

\* Mutant: the starts of a non-leap year are used for every year.
start_day_of_year_non_leap(month, leap_year) == NonLeapStart[month]

start_day_of_year(month, leap_year) ==
    IF ~leap_year THEN NonLeapStart[month] ELSE LeapStart[month]

day_of_year(month, day_of_month, leap_year) ==
    start_day_of_year(month, leap_year) - 1 + day_of_month

----------------------------------------------------------------------------
(* year.rs: a Year is its i16 number *)

\* Mutant: every fourth year, centuries included.
has_leap_day_every_fourth(year) == TruncRem(year, 4) = 0

has_leap_day(year) ==
    TruncRem(year, 4) = 0 /\ (TruncRem(year, 100) # 0 \/ TruncRem(year, 400) = 0)

Year_total_days(year) == IF has_leap_day(year) THEN 366 ELSE 365

Year_next(year) == Add16(year, 1)

Year_prev(year) == Sub16(year, 1)

Year_with_day_of_year(year, n) ==
    LET r == month_and_day_from_day_of_year(n, has_leap_day(year))
    IN  IF ~r.ok
        THEN Err([kind |-> "InvalidDayOfYear", year |-> year, day_of_year |-> n])
        ELSE Ok([year |-> year, month |-> r.val.month, day |-> r.val.day])

----------------------------------------------------------------------------
(* error.rs, year_month.rs: a YearMonth is [year, month] *)

YearMonth_new(year, month) == [year |-> year, month |-> month]

with_month(year, month) == YearMonth_new(year, month)

YearMonth_total_days(self) == days_in_month(self.month, has_leap_day(self.year))

YearMonth_day_of_year(self) == start_day_of_year(self.month, has_leap_day(self.year))

\* Mutant: the day is checked against 31 whatever the month.
InvalidDayOfMonth_check_any_month(year, month, day) ==
    IF day < 1 \/ day > 31
    THEN Err([kind |-> "InvalidDayOfMonth", year |-> year, month |-> month, day |-> day])
    ELSE Ok(<<>>)

InvalidDayOfMonth_check(year, month, day) ==
    IF day < 1 \/ day > YearMonth_total_days(YearMonth_new(year, month))
    THEN Err([kind |-> "InvalidDayOfMonth", year |-> year, month |-> month, day |-> day])
    ELSE Ok(<<>>)

new_unchecked(year, month, day) == [year |-> year, month |-> month, day |-> day]

with_day_unchecked(self, day) == new_unchecked(self.year, self.month, day)

with_day(self, day) ==
    LET c == InvalidDayOfMonth_check(self.year, self.month, day)
    IN  IF ~c.ok THEN Err(c.err) ELSE Ok(new_unchecked(self.year, self.month, day))

YearMonth_first_day(self) == [year |-> self.year, month |-> self.month, day |-> 1]

YearMonth_last_day(self) ==
    [year |-> self.year, month |-> self.month, day |-> YearMonth_total_days(self)]

YearMonth_next(self) ==
    IF self.month = December
    THEN LET y == Year_next(self.year)
         IN  [val |-> YearMonth_new(y.val, January), ovf |-> y.ovf]
    ELSE [val |-> YearMonth_new(self.year, wrapping_next(self.month)), ovf |-> FALSE]

YearMonth_prev(self) ==
    IF self.month = January
    THEN LET y == Year_prev(self.year)
         IN  [val |-> YearMonth_new(y.val, December), ovf |-> y.ovf]
    ELSE [val |-> YearMonth_new(self.year, wrapping_prev(self.month)), ovf |-> FALSE]

\* Mutant: the month is not carried over to the new year.
YearMonth_add_years_from_january(self, years) ==
    LET y == Add16(self.year, years)
    IN  [val |-> with_month(y.val, January), ovf |-> y.ovf]

YearMonth_add_years(self, years) ==
    LET y == Add16(self.year, years)
    IN  [val |-> with_month(y.val, self.month), ovf |-> y.ovf]

YearMonth_sub_years(self, years) ==
    LET y == Sub16(self.year, years)
    IN  [val |-> with_month(y.val, self.month), ovf |-> y.ovf]

\* Mutant: the year is not decreased for a negative remainder.
YearMonth_add_months_truncated(self, months) ==
    LET m == Add32(self.month - 1, months)
        y0 == Add16(self.year, Wrap16(TruncDiv(m.val, 12)))
        month == wrapping_add(January, TruncRem(m.val, 12))
    IN  [val |-> with_month(y0.val, month), ovf |-> m.ovf \/ y0.ovf]

\* months / 12 is cast with `as i16` (silently wrapped), then added in i16.
YearMonth_add_months(self, months) ==
    LET m == Add32(self.month - 1, months)
        y0 == Add16(self.year, Wrap16(TruncDiv(m.val, 12)))
        r == TruncRem(m.val, 12)
        month == wrapping_add(January, r)
        y1 == IF r < 0 THEN Sub16(y0.val, 1) ELSE [val |-> y0.val, ovf |-> FALSE]
    IN  [val |-> with_month(y1.val, month), ovf |-> m.ovf \/ y0.ovf \/ y1.ovf]

\* -months is an i32 negation: it overflows for i32::MIN.
YearMonth_sub_months(self, months) ==
    LET n == Sub32(0, months)
        r == YearMonth_add_months(self, n.val)
    IN  [val |-> r.val, ovf |-> n.ovf \/ r.ovf]

\* Mutant: the days past the end of the month are carried into the next one.
next_valid_with_excess_days(self) ==
    LET n == YearMonth_next(with_month(self.year, self.month))
        excess == self.day - YearMonth_total_days(with_month(self.year, self.month))
    IN  [val |-> with_day_unchecked(n.val, IF excess >= 1 THEN excess ELSE 1),
         ovf |-> n.ovf]

\* InvalidDayOfMonth::next_valid / prev_valid
next_valid(self) ==
    LET n == YearMonth_next(with_month(self.year, self.month))
    IN  [val |-> YearMonth_first_day(n.val), ovf |-> n.ovf]

prev_valid(self) == YearMonth_last_day(with_month(self.year, self.month))

Year_first_day(year) == [year |-> year, month |-> January, day |-> 1]

Year_last_day(year) == [year |-> year, month |-> December, day |-> 31]

----------------------------------------------------------------------------
(* date.rs: a Date is [year, month, day] *)

DAYS_IN_400_YEAR == 400 * 365 + 97

UNIX_EPOCH == DAYS_IN_400_YEAR * 4 + 370 * 365 + 90

\* #[derive(Ord, PartialOrd)] on Date: the fields are compared in the order
\* of their declaration, year (an i16), month (by discriminant), day (a u8).
Date_lt(a, b) ==
    IF a.year # b.year THEN a.year < b.year
    ELSE IF a.month # b.month THEN a.month < b.month
    ELSE a.day < b.day

\* Date::new with a raw month number (M = u8).
Date_new(year, month, day) ==
    LET m == Month_new(month)
    IN  IF ~m.ok
        THEN Err([kind |-> "InvalidMonthNumber", number |-> m.err.number])
        ELSE with_day(YearMonth_new(year, m.val), day)

year_month(self) == YearMonth_new(self.year, self.month)

Date_day_of_year(self) == day_of_year(self.month, self.day, has_leap_day(self.year))

\* years is in 0..399 and whole_cycles in -81..81, so after the i16
\* subtraction no later step can leave its width.
days_since_year_zero(self) ==
    LET years == modulo_i16(self.year, 400)
        diff == Sub16(self.year, years.val)
        whole_cycles == TruncDiv(diff.val, 400)
        leap_days0 == TruncDiv(years.val, 4) - TruncDiv(years.val, 100) + 1
        leap_days == leap_days0 - (IF has_leap_day(self.year) THEN 1 ELSE 0)
        from_years == whole_cycles * DAYS_IN_400_YEAR + years.val * 365 + leap_days
    IN  [val |-> from_years + Date_day_of_year(self) - 1,
         ovf |-> years.ovf \/ diff.ovf]

\* 400 * whole_cycles + ... stays far inside i32; `year as i16` wraps.
\* Mutant: the leap day of the first year of the four is not taken off the
\* day of the year of the three years after it.
from_days_since_year_zero_steps_leap_day_kept(days) ==
    LET di == modulo_i32(days, DAYS_IN_400_YEAR)
        day_index == di.val
        diff == Sub32(days, day_index)
        whole_cycles == TruncDiv(diff.val, DAYS_IN_400_YEAR)
        pretend_leap_days ==
            IF day_index >= 300 * 365 + 73 + 31 + 28 THEN 3
            ELSE IF day_index >= 200 * 365 + 49 + 31 + 28 THEN 2
            ELSE IF day_index >= 100 * 365 + 25 + 31 + 28 THEN 1
            ELSE 0
        four_year_cycles == TruncDiv(day_index + pretend_leap_days, 4 * 365 + 1)
        day_of_four_year_cycle == TruncRem(day_index + pretend_leap_days, 4 * 365 + 1)
        year_of_four_year_cycle == TruncDiv(day_of_four_year_cycle - 1, 365)
        doy0 == day_of_four_year_cycle - (year_of_four_year_cycle * 365)
        doy1 == doy0
        doy == doy1 + 1
    IN  [day_index |-> day_index, whole_cycles |-> whole_cycles,
         four_year_cycles |-> four_year_cycles,
         year_of_four_year_cycle |-> year_of_four_year_cycle,
         day_of_year |-> doy,
         month_and_day |->
             month_and_day_from_day_of_year(doy % 65536, year_of_four_year_cycle = 0),
         ovf |-> di.ovf \/ diff.ovf]

\* The locals of from_days_since_year_zero, up to the match on
\* month_and_day_from_day_of_year.
from_days_since_year_zero_steps(days) ==
    LET di == modulo_i32(days, DAYS_IN_400_YEAR)
        day_index == di.val
        diff == Sub32(days, day_index)
        whole_cycles == TruncDiv(diff.val, DAYS_IN_400_YEAR)
        pretend_leap_days ==
            IF day_index >= 300 * 365 + 73 + 31 + 28 THEN 3
            ELSE IF day_index >= 200 * 365 + 49 + 31 + 28 THEN 2
            ELSE IF day_index >= 100 * 365 + 25 + 31 + 28 THEN 1
            ELSE 0
        four_year_cycles == TruncDiv(day_index + pretend_leap_days, 4 * 365 + 1)
        day_of_four_year_cycle == TruncRem(day_index + pretend_leap_days, 4 * 365 + 1)
        year_of_four_year_cycle == TruncDiv(day_of_four_year_cycle - 1, 365)
        doy0 == day_of_four_year_cycle - (year_of_four_year_cycle * 365)
        doy1 == doy0 - (IF day_of_four_year_cycle >= 366 THEN 1 ELSE 0)
        doy == doy1 + 1
    IN  [day_index |-> day_index, whole_cycles |-> whole_cycles,
         four_year_cycles |-> four_year_cycles,
         year_of_four_year_cycle |-> year_of_four_year_cycle,
         day_of_year |-> doy,
         month_and_day |->
             month_and_day_from_day_of_year(doy % 65536, year_of_four_year_cycle = 0),
         ovf |-> di.ovf \/ diff.ovf]

\* The Err arm of the match stands in for unreachable!().
from_days_since_year_zero(days) ==
    LET s == from_days_since_year_zero_steps(days)
        year == Wrap16(400 * s.whole_cycles + 4 * s.four_year_cycles
                         + s.year_of_four_year_cycle)
        r == s.month_and_day
        md == IF r.ok THEN r.val ELSE [month |-> January, day |-> 1]
    IN  [val |-> with_day_unchecked(with_month(year, md.month), md.day),
         ovf |-> s.ovf]

\* Mutant: the truncated quotient is used as it is.
from_unix_timestamp_truncated(seconds) ==
    LET days == I64_div_86400(seconds)
        sum == Add32(UNIX_EPOCH, I64_as_i32(days))
        f == from_days_since_year_zero(sum.val)
    IN  [val |-> f.val, ovf |-> sum.ovf \/ f.ovf]

\* seconds / (24 * 3600) truncates; days - 1 and days * 24 * 3600 are i64
\* operations on values no larger than seconds in magnitude (plus one).
from_unix_timestamp(seconds) ==
    LET days0 == I64_div_86400(seconds)
        days == IF I64_is_negative(seconds) /\ seconds # I64_times_86400(days0)
                THEN I64_add(days0, -1)
                ELSE days0
        sum == Add32(UNIX_EPOCH, I64_as_i32(days))
        f == from_days_since_year_zero(sum.val)
    IN  [val |-> f.val, ovf |-> sum.ovf \/ f.ovf]

\* The i64 product 60 * 60 * 24 * (days as i64) of an i32 cannot overflow.
to_unix_timestamp(self) ==
    LET d == days_since_year_zero(self)
        days == Sub32(d.val, UNIX_EPOCH)
    IN  [val |-> I64_times_86400(I64_from_i32(days.val)), ovf |-> d.ovf \/ days.ovf]

Date_next(self) ==
    IF self.day = YearMonth_total_days(year_month(self))
    THEN LET n == YearMonth_next(year_month(self))
         IN  [val |-> YearMonth_first_day(n.val), ovf |-> n.ovf]
    ELSE [val |-> [year |-> self.year, month |-> self.month, day |-> (self.day + 1) % 256],
          ovf |-> self.day + 1 > 255]

\* Mutant: the last day of February is always taken to be the 28th.
Date_prev_no_leap_day(self) ==
    IF self.day = 1
    THEN LET p == YearMonth_prev(year_month(self))
         IN  [val |-> [year |-> p.val.year, month |-> p.val.month,
                       day |-> days_in_month_no_leap_day(p.val.month, FALSE)],
              ovf |-> p.ovf]
    ELSE [val |-> [year |-> self.year, month |-> self.month, day |-> (self.day - 1) % 256],
          ovf |-> self.day - 1 < 0]

Date_prev(self) ==
    IF self.day = 1
    THEN LET p == YearMonth_prev(year_month(self))
         IN  [val |-> YearMonth_last_day(p.val), ovf |-> p.ovf]
    ELSE [val |-> [year |-> self.year, month |-> self.month, day |-> (self.day - 1) % 256],
          ovf |-> self.day - 1 < 0]

\* Mutant: the current date is not counted.
days_remaining_in_year_exclusive(self) ==
    LET diff == Year_total_days(self.year) - Date_day_of_year(self)
    IN  [val |-> diff % 65536, ovf |-> diff < 0]

\* u16 arithmetic: total_days() - day_of_year() + 1.
days_remaining_in_year(self) ==
    LET diff == Year_total_days(self.year) - Date_day_of_year(self)
    IN  [val |-> ((diff % 65536) + 1) % 65536,
         ovf |-> diff < 0 \/ (diff % 65536) + 1 > 65535]

add_days(self, days) ==
    LET a == days_since_year_zero(self)
        s == Add32(a.val, days)
        f == from_days_since_year_zero(s.val)
    IN  [val |-> f.val, ovf |-> a.ovf \/ s.ovf \/ f.ovf]

sub_days(self, days) ==
    LET a == days_since_year_zero(self)
        s == Sub32(a.val, days)
        f == from_days_since_year_zero(s.val)
    IN  [val |-> f.val, ovf |-> a.ovf \/ s.ovf \/ f.ovf]

\* Mutant: a day past the end of the target month becomes its last day.
Date_add_months_clamped(self, months) ==
    LET ym == YearMonth_add_months(year_month(self), months)
        last == YearMonth_total_days(ym.val)
    IN  [val |-> Ok(with_day_unchecked(ym.val, IF self.day > last THEN last ELSE self.day)),
         ovf |-> ym.ovf]

Date_add_months(self, months) ==
    LET ym == YearMonth_add_months(year_month(self), months)
    IN  [val |-> with_day(ym.val, self.day), ovf |-> ym.ovf]

\* ext.rs: or_next_valid / or_prev_valid on a Result<Date, InvalidDayOfMonth>.
or_next_valid(r) ==
    IF r.ok THEN [val |-> r.val, ovf |-> FALSE] ELSE next_valid(r.err)

or_prev_valid(r) ==
    IF r.ok THEN [val |-> r.val, ovf |-> FALSE] ELSE [val |-> prev_valid(r.err), ovf |-> FALSE]

\* Mutant: the day is attached to the new year without a check.
Date_add_years_unchecked(self, years) ==
    LET ym == YearMonth_add_years(year_month(self), years)
    IN  [val |-> Ok(with_day_unchecked(ym.val, self.day)), ovf |-> ym.ovf]

Date_add_years(self, years) ==
    LET ym == YearMonth_add_years(year_month(self), years)
    IN  [val |-> with_day(ym.val, self.day), ovf |-> ym.ovf]

\* Date::sub_months passes months on to YearMonth::add_months as it is.
Date_sub_months(self, months) ==
    LET ym == YearMonth_add_months(year_month(self), months)
    IN  [val |-> with_day(ym.val, self.day), ovf |-> ym.ovf]

\* Date::sub_years passes years on to YearMonth::add_years as it is.
Date_sub_years(self, years) ==
    LET ym == YearMonth_add_years(year_month(self), years)
    IN  [val |-> with_day(ym.val, self.day), ovf |-> ym.ovf]

----------------------------------------------------------------------------
(* date.rs: Display and FromStr.  A string is the sequence of its chars.    *)

DigitChars == <<"0", "1", "2", "3", "4", "5", "6", "7", "8", "9">>

IsDigit(c) == \E i \in 1 .. 10 : DigitChars[i] = c

DigitValue(c) == (CHOOSE i \in 1 .. 10 : DigitChars[i] = c) - 1

\* The decimal digits of n >= 0.
RECURSIVE Digits(_)
Digits(n) ==
    IF n < 10 THEN <<DigitChars[n + 1]>>
    ELSE Append(Digits(n \div 10), DigitChars[(n % 10) + 1])

RECURSIVE ZeroPadded(_, _)
ZeroPadded(text, width) ==
    IF Len(text) >= width THEN text ELSE ZeroPadded(<<"0">> \o text, width)

\* `{:04}` of an i16: the zeros go between the sign and the digits, and the
\* sign counts for the width.
format_i16_04(n) ==
    IF n < 0 THEN <<"-">> \o ZeroPadded(Digits(-n), 3) ELSE ZeroPadded(Digits(n), 4)

\* `{:02}` of a u8.
format_u8_02(n) == ZeroPadded(Digits(n), 2)

\* impl Display for Date: "{:04}-{:02}-{:02}".
Date_fmt(self) ==
    format_i16_04(self.year) \o <<"-">> \o format_u8_02(self.month)
        \o <<"-">> \o format_u8_02(self.day)

\* The index of the first '-' of text at or after position from, 0 if none.
FirstDash(text, from) ==
    LET at == {i \in from .. Len(text) : text[i] = "-"}
    IN  IF at = {} THEN 0 ELSE CHOOSE i \in at : \A j \in at : i <= j

\* data.splitn(3, '-'): at most three fields, the last one the whole rest.
splitn_3_dash(text) ==
    LET d1 == FirstDash(text, 1)
        d2 == IF d1 = 0 THEN 0 ELSE FirstDash(text, d1 + 1)
    IN  IF d1 = 0 THEN <<text>>
        ELSE IF d2 = 0
        THEN <<SubSeq(text, 1, d1 - 1), SubSeq(text, d1 + 1, Len(text))>>
        ELSE <<SubSeq(text, 1, d1 - 1), SubSeq(text, d1 + 1, d2 - 1),
               SubSeq(text, d2 + 1, Len(text))>>

\* The value of a string of digits, or limit + 1 once it is past limit.
RECURSIVE DigitsValueUpTo(_, _)
DigitsValueUpTo(text, limit) ==
    IF text = <<>> THEN 0
    ELSE LET front == DigitsValueUpTo(SubSeq(text, 1, Len(text) - 1), limit)
             v == 10 * front + DigitValue(text[Len(text)])
         IN  IF front > limit \/ v > limit THEN limit + 1 ELSE v

\* str::parse::<i16>(): an optional '+' or '-', then one or more digits, the
\* value within i16.
parse_i16(text) ==
    LET signed == text # <<>> /\ text[1] \in {"+", "-"}
        digits == IF signed THEN Tail(text) ELSE text
        magnitude == DigitsValueUpTo(digits, -I16_MIN)
        v == IF signed /\ text[1] = "-" THEN -magnitude ELSE magnitude
    IN  IF digits = <<>> \/ (\E i \in 1 .. Len(digits) : ~IsDigit(digits[i])) \/ ~InI16(v)
        THEN Err(<<>>)
        ELSE Ok(v)

\* str::parse::<u8>(): an optional '+' (a '-' is no digit), then one or more
\* digits, the value within u8.
parse_u8(text) ==
    LET digits == IF text # <<>> /\ text[1] = "+" THEN Tail(text) ELSE text
        v == DigitsValueUpTo(digits, 255)
    IN  IF digits = <<>> \/ (\E i \in 1 .. Len(digits) : ~IsDigit(digits[i])) \/ v > 255
        THEN Err(<<>>)
        ELSE Ok(v)

InvalidDateSyntax == [kind |-> "InvalidDateSyntax"]

\* impl FromStr for Date
from_str(data) ==
    LET fields == splitn_3_dash(data)
    IN  IF Len(fields) < 3 THEN Err(InvalidDateSyntax)
        ELSE LET year == parse_i16(fields[1])
                 month == parse_u8(fields[2])
                 day == parse_u8(fields[3])
             IN  IF ~year.ok \/ ~month.ok \/ ~day.ok
                 THEN Err(InvalidDateSyntax)
                 ELSE Date_new(year.val, month.val, day.val)

----------------------------------------------------------------------------
(* Values held in the state, and the outcomes of a call *)

DateV(d) == [kind |-> "date", v |-> d]
DaysV(n) == [kind |-> "days", v |-> n]
ResultV(r) == [kind |-> "result", v |-> r]
YearMonthV(ym) == [kind |-> "year_month", v |-> ym]
YearV(y) == [kind |-> "year", v |-> y]
BoolV(b) == [kind |-> "bool", v |-> b]
NumV(n) == [kind |-> "num", v |-> n]
SecondsV(x) == [kind |-> "seconds", v |-> x]
MonthV(m) == [kind |-> "month", v |-> m]
TextV(t) == [kind |-> "text", v |-> t]
Panic == [kind |-> "panic"]
NoCall == [op |-> "none"]

\* What a call that computed r leaves behind: with overflow checks compiled in
\* the call panics when an operation overflowed, without them it returns the
\* wrapped value.  Both builds exist; a run is of either.
Outcomes(r, kind) ==
    {IF r.ovf /\ overflow_checks THEN Panic ELSE [kind |-> kind, v |-> r.val] :
        overflow_checks \in BOOLEAN}

----------------------------------------------------------------------------
(* The calendar, stated independently of the code (used by the properties   *)
(* and to choose inputs): floored %, \div of TLA+.                          *)

RefLeap(y) == y % 4 = 0 /\ (y % 100 # 0 \/ y % 400 = 0)

RefMonthLen(y, m) ==
    IF m = 2 THEN (IF RefLeap(y) THEN 29 ELSE 28)
    ELSE IF m \in {4, 6, 9, 11} THEN 30 ELSE 31

RECURSIVE RefDaysBefore(_, _)
RefDaysBefore(y, m) ==
    IF m = 1 THEN 0 ELSE RefDaysBefore(y, m - 1) + RefMonthLen(y, m - 1)

CeilDiv(a, b) == -((-a) \div b)

\* The signed number of leap years between year 0 and year y: those in
\* 0 .. y-1 for y > 0, minus those in y .. -1 for y < 0.
RefLeapYearsBefore(y) == CeilDiv(y, 4) - CeilDiv(y, 100) + CeilDiv(y, 400)

\* Days from 0000-01-01 to the date.
RefDays(d) ==
    365 * d.year + RefLeapYearsBefore(d.year) + RefDaysBefore(d.year, d.month) + d.day - 1

ValidDate(d) ==
    /\ d.month \in Months
    /\ 1 <= d.day
    /\ d.day <= YearMonth_total_days(YearMonth_new(d.year, d.month))

----------------------------------------------------------------------------
(* Bounds and input sets *)

\* Years this far from an end of the i16 range, and from year 0, get every day.
YearWindow == 4

\* Days this far around the start of each 400-year cycle are inputs.
EdgeDays == 800

\* The tests walk and convert over ten 400-year cycles in each direction.
RangeCycles == 10

I16Years == I16_MIN .. I16_MAX

WindowYears ==
    (I16_MIN .. (I16_MIN + YearWindow)) \cup ((-YearWindow) .. YearWindow)
        \cup ((I16_MAX - YearWindow) .. I16_MAX)

\* The first day of a year, the days around the end of February, the last day.
YearMarks == {<<1, 1>>, <<2, 28>>, <<2, 29>>, <<3, 1>>, <<12, 31>>}

----------------------------------------------------------------------------
(* SpecDays: a date is converted to its day count and back *)

\* The dates Date::new accepts: every day of the window years, and the marked
\* days of every i16 year.
InitDays ==
    /\ \/ \E y \in WindowYears, m \in Months, d \in 1 .. 31 :
            /\ Date_new(y, m, d).ok
            /\ origin = DateV(Date_new(y, m, d).val)
       \/ \E y \in I16Years, md \in YearMarks :
            /\ Date_new(y, md[1], md[2]).ok
            /\ origin = DateV(Date_new(y, md[1], md[2]).val)
    /\ val = origin
    /\ call = NoCall
    /\ steps = 0

CallDaysSinceYearZero ==
    /\ val.kind = "date"
    /\ steps < 2
    /\ val' \in Outcomes(days_since_year_zero(val.v), "days")
    /\ call' = [op |-> "days_since_year_zero", arg |-> val.v]
    /\ steps' = steps + 1
    /\ UNCHANGED origin

CallFromDaysSinceYearZero ==
    /\ val.kind = "days"
    /\ steps < 2
    /\ val' \in Outcomes(from_days_since_year_zero(val.v), "date")
    /\ call' = [op |-> "from_days_since_year_zero", arg |-> val.v]
    /\ steps' = steps + 1
    /\ UNCHANGED origin

NextDays == CallDaysSinceYearZero \/ CallFromDaysSinceYearZero

SpecDays == InitDays /\ [][NextDays]_vars

\* C1: for every valid date D of any i16 year,
\* from_days_since_year_zero(D.days_since_year_zero()) returns D again.
C1_DateRoundTrip ==
    origin.kind = "date" =>
        /\ val # Panic
        /\ steps = 2 => val = origin

\* C2: for every valid date of any i16 year days_since_year_zero returns the
\* exact number of days since 0000-01-01, and no intermediate overflows.
C2_ExactDayCount ==
    (origin.kind = "date" /\ steps = 1) => val = DaysV(RefDays(origin.v))

----------------------------------------------------------------------------
(* SpecFromDays: a day count is converted to a date and back *)

InTestRange(d) ==
    (-RangeCycles) * DAYS_IN_400_YEAR <= d /\ d <= RangeCycles * DAYS_IN_400_YEAR

\* The cycles of which every day is an input: the two around day 0, the one
\* that holds the first years past the i16 range, and the second one past a
\* whole turn of the 16-bit year counter.
FullCycles == {-1, 0, (I16_MAX \div 400) + 1, ((2^16) \div 400) + 1}

\* Every day of the full cycles; the days around the start of each cycle of
\* the range of the round-trip test; the days at both ends of i32.
InitFromDays ==
    /\ \/ \E c \in FullCycles, i \in 0 .. (DAYS_IN_400_YEAR - 1) :
            origin = DaysV(c * DAYS_IN_400_YEAR + i)
       \/ \E c \in (-RangeCycles) .. RangeCycles, i \in (-EdgeDays) .. EdgeDays :
            origin = DaysV(c * DAYS_IN_400_YEAR + i)
       \/ \E i \in 0 .. EdgeDays :
            origin \in {DaysV(I32_MIN + i), DaysV(I32_MAX - i)}
    /\ val = origin
    /\ call = NoCall
    /\ steps = 0

NextFromDays == CallFromDaysSinceYearZero \/ CallDaysSinceYearZero

SpecFromDays == InitFromDays /\ [][NextFromDays]_vars

\* C3: for every d within ten 400-year cycles of day 0,
\* from_days_since_year_zero(d).days_since_year_zero() returns d.
C3_DaysRoundTrip ==
    (origin.kind = "days" /\ InTestRange(origin.v)) =>
        /\ val # Panic
        /\ steps = 2 => val = origin

\* C3 witness: the round trip was made from the most negative day of the range.
C3_Witness ==
    /\ steps = 2
    /\ origin.v = (-RangeCycles) * DAYS_IN_400_YEAR
    /\ val = origin

\* C5: from_days_since_year_zero returns a valid Date for every i32 input.
C5_FromDaysValid ==
    call.op = "from_days_since_year_zero" => (val.kind = "date" /\ ValidDate(val.v))

----------------------------------------------------------------------------
(* SpecWalk: the loops of the tests days_since_year_zero and                *)
(* from_days_since_year_zero: from Date(0, January, 1), next() (or prev())  *)
(* is applied day after day.                                                *)

\* The length of a walk, in days, as in the tests.
MaxWalk == RangeCycles * DAYS_IN_400_YEAR

InitWalk ==
    /\ origin = DateV(Date_new(0, 1, 1).val)
    /\ val = origin
    /\ call = NoCall
    /\ steps = 0

WalkNext ==
    /\ call.op \in {"none", "next"}
    /\ val.kind = "date"
    /\ steps < MaxWalk
    /\ val' \in Outcomes(Date_next(val.v), "date")
    /\ call' = [op |-> "next"]
    /\ steps' = steps + 1
    /\ UNCHANGED origin

WalkPrev ==
    /\ call.op \in {"none", "prev"}
    /\ val.kind = "date"
    /\ steps < MaxWalk
    /\ val' \in Outcomes(Date_prev(val.v), "date")
    /\ call' = [op |-> "prev"]
    /\ steps' = steps + 1
    /\ UNCHANGED origin

NextWalk == WalkNext \/ WalkPrev

SpecWalk == InitWalk /\ [][NextWalk]_vars

\* The day number the walk has reached: k after k next(), -k after k prev().
WalkDay == IF call.op = "prev" THEN -steps ELSE steps

\* C4: after k calls of next() from Date(0, January, 1) the date's
\* days_since_year_zero() is k, after k calls of prev() it is -k, and the date
\* is the one from_days_since_year_zero returns for that day number.
C4_WalkInLockstep ==
    /\ val.kind = "date"
    /\ days_since_year_zero(val.v) = [val |-> WalkDay, ovf |-> FALSE]
    /\ from_days_since_year_zero(WalkDay) = [val |-> val.v, ovf |-> FALSE]

\* C4 witness: a walk back over a whole 400-year cycle, into year -401.
C4_Witness ==
    /\ call.op = "prev"
    /\ steps > DAYS_IN_400_YEAR
    /\ val.v.year = -401

----------------------------------------------------------------------------
(* SpecOps: sequences of the safe operations on a Date *)

\* The number of operations applied in a row.
MaxOps == 2

\* Every number of months up to this one is added or subtracted.
MaxMonthDelta == 2

\* The years whose dates are constructed and operated on (an operation may
\* lead anywhere; the run goes on from dates of these years).
OpsYears ==
    (I16_MIN .. (I16_MIN + YearWindow)) \cup {0, I16_MAX}

DayDeltas ==
    {-DAYS_IN_400_YEAR, -(4 * 365 + 1), -365, -31, -1, 0,
     1, 31, 365, 4 * 365 + 1, DAYS_IN_400_YEAR}

MonthDeltas == ((-MaxMonthDelta) .. MaxMonthDelta) \cup {-13, -12, -11, 11, 12, 13}

YearDeltas == {-400, -100, -4, -1, 0, 1, 4, 100, 400}

\* The first and the last day a Date can hold.
RefMinDay == RefDays([year |-> I16_MIN, month |-> 1, day |-> 1])
RefMaxDay == RefDays([year |-> I16_MAX, month |-> 12, day |-> 31])

\* The operation's calendar result lies in a year that fits i16.
KeepsDayInRange(d, n) ==
    RefMinDay <= RefDays(d) + n /\ RefDays(d) + n <= RefMaxDay

KeepsMonthInRange(d, n) ==
    /\ InI16(d.year + (((d.month - 1) + n) \div 12))
    /\ InI16(d.year + (((d.month - 1) + n + 1) \div 12))

\* Dates are built by Date::new, YearMonth::with_day and Year::with_day_of_year.
InitOps ==
    /\ origin = [kind |-> "constructed"]
    /\ \/ \E y \in OpsYears, m \in 0 .. 13, d \in 0 .. 32 :
            /\ Date_new(y, m, d).ok
            /\ val = DateV(Date_new(y, m, d).val)
       \/ \E y \in OpsYears, m \in Months, d \in 0 .. 32 :
            /\ with_day(YearMonth_new(y, m), d).ok
            /\ val = DateV(with_day(YearMonth_new(y, m), d).val)
       \/ \E y \in OpsYears, n \in 0 .. 367 :
            /\ Year_with_day_of_year(y, n).ok
            /\ val = DateV(Year_with_day_of_year(y, n).val)
    /\ call = NoCall
    /\ steps = 0

OpReady ==
    /\ val.kind = "date"
    /\ val.v.year \in OpsYears
    /\ steps < MaxOps

OpDone(name) ==
    /\ call' = [op |-> name]
    /\ steps' = steps + 1
    /\ UNCHANGED origin

OpNext ==
    /\ OpReady
    /\ KeepsDayInRange(val.v, 1)
    /\ val' \in Outcomes(Date_next(val.v), "date")
    /\ OpDone("next")

OpPrev ==
    /\ OpReady
    /\ KeepsDayInRange(val.v, -1)
    /\ val' \in Outcomes(Date_prev(val.v), "date")
    /\ OpDone("prev")

OpAddDays ==
    /\ OpReady
    /\ \E n \in DayDeltas :
        /\ KeepsDayInRange(val.v, n)
        /\ val' \in Outcomes(add_days(val.v, n), "date")
    /\ OpDone("add_days")

OpSubDays ==
    /\ OpReady
    /\ \E n \in DayDeltas :
        /\ KeepsDayInRange(val.v, -n)
        /\ val' \in Outcomes(sub_days(val.v, n), "date")
    /\ OpDone("sub_days")

\* add_months(n), then the Ok value or the error's next_valid().
OpAddMonthsOrNextValid ==
    /\ OpReady
    /\ \E n \in MonthDeltas :
        /\ KeepsMonthInRange(val.v, n)
        /\ LET r == Date_add_months(val.v, n)
               v == or_next_valid(r.val)
           IN  val' \in Outcomes([val |-> v.val, ovf |-> r.ovf \/ v.ovf], "date")
    /\ OpDone("add_months.or_next_valid")

\* add_months(n), then the Ok value or the error's prev_valid().
OpAddMonthsOrPrevValid ==
    /\ OpReady
    /\ \E n \in MonthDeltas :
        /\ KeepsMonthInRange(val.v, n)
        /\ LET r == Date_add_months(val.v, n)
               v == or_prev_valid(r.val)
           IN  val' \in Outcomes([val |-> v.val, ovf |-> r.ovf \/ v.ovf], "date")
    /\ OpDone("add_months.or_prev_valid")

OpAddYearsOrNextValid ==
    /\ OpReady
    /\ \E n \in YearDeltas :
        /\ InI16(val.v.year + n)
        /\ LET r == Date_add_years(val.v, n)
               v == or_next_valid(r.val)
           IN  val' \in Outcomes([val |-> v.val, ovf |-> r.ovf \/ v.ovf], "date")
    /\ OpDone("add_years.or_next_valid")

OpAddYearsOrPrevValid ==
    /\ OpReady
    /\ \E n \in YearDeltas :
        /\ InI16(val.v.year + n)
        /\ LET r == Date_add_years(val.v, n)
               v == or_prev_valid(r.val)
           IN  val' \in Outcomes([val |-> v.val, ovf |-> r.ovf \/ v.ovf], "date")
    /\ OpDone("add_years.or_prev_valid")

OpMonthFirstDay ==
    /\ OpReady
    /\ val' = DateV(YearMonth_first_day(year_month(val.v)))
    /\ OpDone("year_month.first_day")

OpMonthLastDay ==
    /\ OpReady
    /\ val' = DateV(YearMonth_last_day(year_month(val.v)))
    /\ OpDone("year_month.last_day")

OpYearFirstDay ==
    /\ OpReady
    /\ val' = DateV(Year_first_day(val.v.year))
    /\ OpDone("year.first_day")

OpYearLastDay ==
    /\ OpReady
    /\ val' = DateV(Year_last_day(val.v.year))
    /\ OpDone("year.last_day")

NextOps ==
    \/ OpNext \/ OpPrev \/ OpAddDays \/ OpSubDays
    \/ OpAddMonthsOrNextValid \/ OpAddMonthsOrPrevValid
    \/ OpAddYearsOrNextValid \/ OpAddYearsOrPrevValid
    \/ OpMonthFirstDay \/ OpMonthLastDay \/ OpYearFirstDay \/ OpYearLastDay

SpecOps == InitOps /\ [][NextOps]_vars

\* C6: every Date that a sequence of safe operations produces, while the
\* year stays inside the i16 range, has 1 <= day <= total_days(year, month).
C6_DatesStayValid == val.kind = "date" => ValidDate(val.v)

----------------------------------------------------------------------------
(* SpecNew: Date::new(year, month, day) with a raw month number (u8) and a  *)
(* day (u8)                                                                 *)

\* Years of the tests of Date::new.
TestYears == {1900, 2000, 2019, 2020}

InitNew ==
    /\ \E y \in OpsYears \cup TestYears, m \in 0 .. 255, d \in 0 .. 255 :
        origin = [kind |-> "new_args", year |-> y, month |-> m, day |-> d]
    /\ val = origin
    /\ call = NoCall
    /\ steps = 0

CallDateNew ==
    /\ origin.kind = "new_args"
    /\ steps = 0
    /\ val' = ResultV(Date_new(origin.year, origin.month, origin.day))
    /\ call' = [op |-> "Date::new"]
    /\ steps' = 1
    /\ UNCHANGED origin

NextNew == CallDateNew

SpecNew == InitNew /\ [][NextNew]_vars

\* C7: Date::new(y, m, d) is Err(InvalidMonthNumber{m}) when m is not in
\* 1..=12, whatever d; else Err(InvalidDayOfMonth{y, m, d}) when d is not a day
\* of the month; else Ok of the date with exactly year y, month m, day d.
C7_NewResult ==
    call.op = "Date::new" =>
        val = ResultV(
            IF origin.month < 1 \/ origin.month > 12
            THEN Err([kind |-> "InvalidMonthNumber", number |-> origin.month])
            ELSE IF origin.day < 1 \/ origin.day > RefMonthLen(origin.year, origin.month)
            THEN Err([kind |-> "InvalidDayOfMonth", year |-> origin.year,
                      month |-> origin.month, day |-> origin.day])
            ELSE Ok([year |-> origin.year, month |-> origin.month, day |-> origin.day]))

\* C7 witness: month 13 and day 0 are both invalid, and the month is reported.
C7_Witness ==
    /\ call.op = "Date::new"
    /\ origin.month = 13
    /\ origin.day = 0
    /\ val.v = Err([kind |-> "InvalidMonthNumber", number |-> 13])

----------------------------------------------------------------------------
(* SpecYear: has_leap_day and total_days of every year *)

InitYear ==
    /\ origin \in {YearV(y) : y \in I16Years}
    /\ val = origin
    /\ call = NoCall
    /\ steps = 0

CallHasLeapDay ==
    /\ origin.kind = "year"
    /\ steps = 0
    /\ val' = BoolV(has_leap_day(origin.v))
    /\ call' = [op |-> "has_leap_day"]
    /\ steps' = 1
    /\ UNCHANGED origin

CallYearTotalDays ==
    /\ origin.kind = "year"
    /\ steps = 0
    /\ val' = NumV(Year_total_days(origin.v))
    /\ call' = [op |-> "total_days"]
    /\ steps' = 1
    /\ UNCHANGED origin

NextYear == CallHasLeapDay \/ CallYearTotalDays

SpecYear == InitYear /\ [][NextYear]_vars

\* C8: for every i16 year y, has_leap_day is true iff 4 divides y and (100
\* does not divide y or 400 divides y); it agrees with year y + 400; and
\* total_days is 366 for exactly those years, 365 otherwise.
C8_LeapRule ==
    /\ call.op = "has_leap_day" =>
        /\ val = BoolV(RefLeap(origin.v))
        /\ InI16(origin.v + 400) => val.v = has_leap_day(origin.v + 400)
    /\ call.op = "total_days" =>
        val = NumV(IF RefLeap(origin.v) THEN 366 ELSE 365)

\* C8 witness: the most negative year, a leap year, was asked.
C8_Witness ==
    /\ call.op = "has_leap_day"
    /\ origin.v = I16_MIN
    /\ val = BoolV(TRUE)

----------------------------------------------------------------------------
(* SpecYearMonth: YearMonth::add_months *)

\* The month deltas of the test add_months: i * 12 +- 12 for i in -200..=200.
MonthRange == 200 * 12 + 12

\* Numbers of years, as months / 12, around which the deltas go past what an
\* i16 holds: the width of i16 and half of it, in both directions.
BigYearDeltas ==
    {k + j : k \in {-(2^16), -(2^15), 2^15, 2^16}, j \in (-YearWindow) .. YearWindow}

\* The deltas of the test; deltas of tens of thousands of years; the ends of i32.
InitYearMonth ==
    /\ \E y \in OpsYears \cup TestYears, m \in Months :
        \/ \E n \in (-MonthRange) .. MonthRange :
            origin = [kind |-> "add_months_args", ym |-> YearMonth_new(y, m), months |-> n]
        \/ \E q \in BigYearDeltas, r \in 0 .. 11 :
            origin = [kind |-> "add_months_args", ym |-> YearMonth_new(y, m),
                      months |-> 12 * q + r]
        \/ \E i \in 0 .. 11 :
            origin \in {[kind |-> "add_months_args", ym |-> YearMonth_new(y, m),
                         months |-> n] : n \in {I32_MIN + i, I32_MAX - i}}
    /\ val = origin
    /\ call = NoCall
    /\ steps = 0

CallAddMonths ==
    /\ origin.kind = "add_months_args"
    /\ steps = 0
    /\ val' \in Outcomes(YearMonth_add_months(origin.ym, origin.months), "year_month")
    /\ call' = [op |-> "add_months"]
    /\ steps' = 1
    /\ UNCHANGED origin

NextYearMonth == CallAddMonths

SpecYearMonth == InitYearMonth /\ [][NextYearMonth]_vars

\* floor(((m - 1) + n) / 12) and ((m - 1) + n) mod 12, formed without leaving
\* 32 bits for any i32 n.
RefYearOffset(m, n) == (n \div 12) + (((m - 1) + (n % 12)) \div 12)
RefMonthIndex(m, n) == ((m - 1) + (n % 12)) % 12

RefAddMonths(ym, n) ==
    [year |-> ym.year + RefYearOffset(ym.month, n),
     month |-> RefMonthIndex(ym.month, n) + 1]

\* C9: for every month delta n of the test's range, add_months(n) returns
\* year y + floor(((m-1) + n) / 12) and the month of zero-based index
\* ((m-1) + n) mod 12 (the year being one an i16 holds).
C9_AddMonthsFloored ==
    ( /\ call.op = "add_months"
      /\ -MonthRange <= origin.months /\ origin.months <= MonthRange
      /\ InI16(RefAddMonths(origin.ym, origin.months).year) )
        => val = YearMonthV(RefAddMonths(origin.ym, origin.months))

\* C9 witness: January and a delta of -1 gave December of the year before;
\* and a base of -12 is reached elsewhere in the same range.
C9_Witness ==
    /\ call.op = "add_months"
    /\ origin.ym = YearMonth_new(2000, January)
    /\ origin.months = -1
    /\ val = YearMonthV(YearMonth_new(1999, December))

\* C10: for every i32 delta n whose correct result year fits i16,
\* add_months(n) returns that result and no intermediate step overflows.
C10_AddMonthsAnyDelta ==
    ( /\ call.op = "add_months"
      /\ InI16(RefAddMonths(origin.ym, origin.months).year) )
        => val = YearMonthV(RefAddMonths(origin.ym, origin.months))

----------------------------------------------------------------------------
(* SpecMonthAlgebra: add_years against add_months of twelve times as many   *)
(* months, and add_months (sub_months) applied twice in a row               *)

\* Every number of years up to this one is added or subtracted.
MaxYearDelta == 400

\* Numbers of years: the small ones, and those at both ends of i16.
YearSteps ==
    ((-MaxYearDelta) .. MaxYearDelta)
        \cup (I16_MIN .. (I16_MIN + YearWindow)) \cup ((I16_MAX - YearWindow) .. I16_MAX)

\* Month deltas of a chain: the small ones, and whole years of months just
\* inside and just past what `as i16` keeps of months / 12.
ChainDeltas ==
    MonthDeltas \cup {12 * q : q \in {-(2^15) - 1, -(2^15), 2^15 - 1, 2^15}}

InitMonthAlgebra ==
    /\ \E y \in OpsYears \cup TestYears, m \in Months :
        \/ \E k \in YearSteps :
            origin = [kind |-> "years_args", ym |-> YearMonth_new(y, m), k |-> k]
        \/ \E a \in ChainDeltas, b \in ChainDeltas :
            origin = [kind |-> "months_chain", ym |-> YearMonth_new(y, m),
                      a |-> a, b |-> b]
    /\ val = origin
    /\ call = NoCall
    /\ steps = 0

CallAddYears ==
    /\ origin.kind = "years_args"
    /\ steps = 0
    /\ val' \in Outcomes(YearMonth_add_years(origin.ym, origin.k), "year_month")
    /\ call' = [op |-> "add_years"]
    /\ steps' = 1
    /\ UNCHANGED origin

\* 12 * k is formed in i32 from an i16 k: it cannot overflow.
CallAddTwelveMonths ==
    /\ origin.kind = "years_args"
    /\ steps = 0
    /\ val' \in Outcomes(YearMonth_add_months(origin.ym, 12 * origin.k), "year_month")
    /\ call' = [op |-> "add_months(12k)"]
    /\ steps' = 1
    /\ UNCHANGED origin

\* ym.add_months(a), then .add_months(b) on what it returned.
ChainAddMonths ==
    /\ origin.kind = "months_chain"
    /\ steps < 2
    /\ val # Panic
    /\ IF steps = 0
       THEN val' \in Outcomes(YearMonth_add_months(origin.ym, origin.a), "year_month")
       ELSE val' \in Outcomes(YearMonth_add_months(val.v, origin.b), "year_month")
    /\ call' = [op |-> "add_months"]
    /\ steps' = steps + 1
    /\ UNCHANGED origin

\* ym.add_months(a), then .sub_months(a) on what it returned.
ChainSubMonths ==
    /\ origin.kind = "months_chain"
    /\ steps = 1
    /\ val # Panic
    /\ val' \in Outcomes(YearMonth_sub_months(val.v, origin.a), "year_month")
    /\ call' = [op |-> "sub_months"]
    /\ steps' = 2
    /\ UNCHANGED origin

NextMonthAlgebra ==
    CallAddYears \/ CallAddTwelveMonths \/ ChainAddMonths \/ ChainSubMonths

SpecMonthAlgebra == InitMonthAlgebra /\ [][NextMonthAlgebra]_vars

\* C11: for every YearMonth ym and every i16 k with ym.year + k an i16 year,
\* ym.add_months(12 * k) and ym.add_years(k) return the same YearMonth, the
\* one of year ym.year + k and the month of ym.
C11_TwelveMonthsAreAYear ==
    (origin.kind = "years_args" /\ steps = 1 /\ InI16(origin.ym.year + origin.k)) =>
        /\ val = YearMonthV(YearMonth_new(origin.ym.year + origin.k, origin.ym.month))
        /\ YearMonth_add_months(origin.ym, 12 * origin.k)
             = YearMonth_add_years(origin.ym, origin.k)

\* C11 witness: March of year 0 minus 32768 years, as 393216 months.
C11_Witness ==
    /\ call.op = "add_months(12k)"
    /\ origin.k = I16_MIN
    /\ origin.ym = YearMonth_new(0, March)
    /\ val = YearMonthV(YearMonth_new(I16_MIN, March))

\* C12: for every YearMonth ym and deltas a, b whose intermediate and final
\* years are i16 years, ym.add_months(a).add_months(b) returns what
\* ym.add_months(a + b) returns, and ym.add_months(a).sub_months(a) returns ym.
C12_AddMonthsComposes ==
    ( /\ origin.kind = "months_chain"
      /\ InI16(RefAddMonths(origin.ym, origin.a).year)
      /\ InI16(RefAddMonths(origin.ym, origin.a + origin.b).year) ) =>
        /\ val # Panic
        /\ (steps = 2 /\ call.op = "add_months") =>
              YearMonth_add_months(origin.ym, origin.a + origin.b)
                = [val |-> val.v, ovf |-> FALSE]
        /\ (steps = 2 /\ call.op = "sub_months") => val = YearMonthV(origin.ym)

----------------------------------------------------------------------------
(* SpecDateArith: Date::new, and add/sub of months and years on a Date,     *)
(* each followed by prev_valid() / next_valid() on an InvalidDayOfMonth     *)

\* The years of the dates: both ends of i16, year 0, the years of the tests.
ArithYears == OpsYears \cup TestYears \cup {2021}

\* Numbers of years: those of the tests, and the small ones.
ArithYearDeltas == YearDeltas \cup ((-YearWindow) .. YearWindow)

InitDateArith ==
    /\ \/ \E y \in ArithYears, m \in 0 .. 13, d \in 0 .. 255 :
            origin = [kind |-> "new_args", year |-> y, month |-> m, day |-> d]
       \/ \E y \in ArithYears, m \in Months, d \in 1 .. 31 :
            /\ Date_new(y, m, d).ok
            /\ \/ \E n \in MonthDeltas :
                    origin = [kind |-> "date_months_args",
                              date |-> Date_new(y, m, d).val, n |-> n]
               \/ \E n \in ArithYearDeltas :
                    origin = [kind |-> "date_years_args",
                              date |-> Date_new(y, m, d).val, n |-> n]
    /\ val = origin
    /\ call = NoCall
    /\ steps = 0

CallDateAddMonths ==
    /\ origin.kind = "date_months_args"
    /\ steps = 0
    /\ val' \in Outcomes(Date_add_months(origin.date, origin.n), "result")
    /\ call' = [op |-> "Date::add_months"]
    /\ steps' = 1
    /\ UNCHANGED origin

CallDateSubMonths ==
    /\ origin.kind = "date_months_args"
    /\ steps = 0
    /\ val' \in Outcomes(Date_sub_months(origin.date, origin.n), "result")
    /\ call' = [op |-> "Date::sub_months"]
    /\ steps' = 1
    /\ UNCHANGED origin

CallDateAddYears ==
    /\ origin.kind = "date_years_args"
    /\ steps = 0
    /\ val' \in Outcomes(Date_add_years(origin.date, origin.n), "result")
    /\ call' = [op |-> "Date::add_years"]
    /\ steps' = 1
    /\ UNCHANGED origin

CallDateSubYears ==
    /\ origin.kind = "date_years_args"
    /\ steps = 0
    /\ val' \in Outcomes(Date_sub_years(origin.date, origin.n), "result")
    /\ call' = [op |-> "Date::sub_years"]
    /\ steps' = 1
    /\ UNCHANGED origin

\* The last call returned Err(InvalidDayOfMonth).
HoldsInvalidDayOfMonth ==
    /\ val.kind = "result"
    /\ ~val.v.ok
    /\ val.v.err.kind = "InvalidDayOfMonth"

CallPrevValid ==
    /\ steps = 1
    /\ HoldsInvalidDayOfMonth
    /\ val' = DateV(prev_valid(val.v.err))
    /\ call' = [op |-> "prev_valid", err |-> val.v.err, after |-> call.op]
    /\ steps' = 2
    /\ UNCHANGED origin

CallNextValid ==
    /\ steps = 1
    /\ HoldsInvalidDayOfMonth
    /\ val' \in Outcomes(next_valid(val.v.err), "date")
    /\ call' = [op |-> "next_valid", err |-> val.v.err, after |-> call.op]
    /\ steps' = 2
    /\ UNCHANGED origin

\* e.prev_valid().next()
CallNextOfPrevValid ==
    /\ steps = 2
    /\ call.op = "prev_valid"
    /\ val' \in Outcomes(Date_next(val.v), "date")
    /\ call' = [op |-> "prev_valid.next", err |-> call.err, after |-> call.after]
    /\ steps' = 3
    /\ UNCHANGED origin

NextDateArith ==
    \/ CallDateNew
    \/ CallDateAddMonths \/ CallDateSubMonths
    \/ CallDateAddYears \/ CallDateSubYears
    \/ CallPrevValid \/ CallNextValid \/ CallNextOfPrevValid

SpecDateArith == InitDateArith /\ [][NextDateArith]_vars

\* The year and month n months from those of date d are ones a YearMonth holds.
MonthTargetInRange(d, n) == InI16(RefAddMonths(year_month(d), n).year)

\* C13: for every valid Date D = (y, m, d) and month delta n with a
\* representable target, with T = YearMonth(y, m).add_months(n):
\* D.add_months(n) is Ok(Date(T.year, T.month, d)) when d <= T.total_days(),
\* and Err(InvalidDayOfMonth{T.year, T.month, d}) otherwise.
C13_AddMonthsKeepsDay ==
    (call.op = "Date::add_months" /\ MonthTargetInRange(origin.date, origin.n)) =>
        LET T == YearMonth_add_months(year_month(origin.date), origin.n)
            d == origin.date.day
        IN  /\ ~T.ovf
            /\ val = ResultV(
                 IF d <= YearMonth_total_days(T.val)
                 THEN Ok([year |-> T.val.year, month |-> T.val.month, day |-> d])
                 ELSE Err([kind |-> "InvalidDayOfMonth", year |-> T.val.year,
                           month |-> T.val.month, day |-> d]))

\* C13 witness: 2021-01-31 plus one month is the error for 31 February 2021.
C13_Witness ==
    /\ call.op = "Date::add_months"
    /\ origin.date = [year |-> 2021, month |-> January, day |-> 31]
    /\ origin.n = 1
    /\ val = ResultV(Err([kind |-> "InvalidDayOfMonth", year |-> 2021,
                          month |-> February, day |-> 31]))

\* C14: for every valid Date D = (y, m, d) and i16 n with y + n an i16 year,
\* D.add_years(n) is Err(InvalidDayOfMonth{y + n, February, 29}) exactly when
\* D is 29 February and year y + n has no leap day, else Ok(Date(y + n, m, d)).
C14_AddYearsKeepsDay ==
    (call.op = "Date::add_years" /\ InI16(origin.date.year + origin.n)) =>
        LET y == origin.date.year + origin.n
            m == origin.date.month
            d == origin.date.day
        IN  val = ResultV(
                IF m = 2 /\ d = 29 /\ ~RefLeap(y)
                THEN Err([kind |-> "InvalidDayOfMonth", year |-> y, month |-> 2, day |-> 29])
                ELSE Ok([year |-> y, month |-> m, day |-> d]))

\* C14 witness: 2000-02-29 plus 100 years is the error for 29 February 2100.
C14_Witness ==
    /\ call.op = "Date::add_years"
    /\ origin.date = [year |-> 2000, month |-> February, day |-> 29]
    /\ origin.n = 100
    /\ val = ResultV(Err([kind |-> "InvalidDayOfMonth", year |-> 2100,
                          month |-> February, day |-> 29]))

\* C15: for every valid Date D and n whose target n months earlier is
\* representable, D.sub_months(n) returns what D.add_months(-n) returns.
C15_SubMonthsSubtracts ==
    (call.op = "Date::sub_months" /\ MonthTargetInRange(origin.date, -origin.n)) =>
        val \in Outcomes(Date_add_months(origin.date, -origin.n), "result")

\* C16: for every valid Date D = (y, m, d) and n with y - n an i16 year,
\* D.sub_years(n) returns what D.add_years(-n) returns.
C16_SubYearsSubtracts ==
    (call.op = "Date::sub_years" /\ InI16(origin.date.year - origin.n)) =>
        val \in Outcomes(Date_add_years(origin.date, -origin.n), "result")

\* The first day of the month after (year, month), by the calendar.
RefFirstOfNextMonth(year, month) ==
    IF month = 12
    THEN [year |-> year + 1, month |-> 1, day |-> 1]
    ELSE [year |-> year, month |-> month + 1, day |-> 1]

\* C17: for every error e = {year, month, day} that Date::add_months or
\* Date::add_years returned, e.prev_valid() is the last day of (year, month),
\* e.next_valid() is day 1 of the following month whatever the excess of day,
\* and e.prev_valid().next() is e.next_valid().
C17_ValidNeighbours ==
    ( /\ call.op \in {"prev_valid", "next_valid", "prev_valid.next"}
      /\ call.after \in {"Date::add_months", "Date::add_years"} ) =>
        LET e == call.err
        IN  /\ call.op = "prev_valid" =>
                  val = DateV([year |-> e.year, month |-> e.month,
                               day |-> RefMonthLen(e.year, e.month)])
            /\ call.op = "next_valid" =>
                  val = DateV(RefFirstOfNextMonth(e.year, e.month))
            /\ call.op = "prev_valid.next" =>
                  next_valid(e) = [val |-> val.v, ovf |-> FALSE]

\* C17 witness: for 29 February 2100, prev_valid().next() gave 2100-03-01.
C17_Witness ==
    /\ call.op = "prev_valid.next"
    /\ call.after = "Date::add_years"
    /\ call.err = [kind |-> "InvalidDayOfMonth", year |-> 2100, month |-> February,
                   day |-> 29]
    /\ val = DateV([year |-> 2100, month |-> March, day |-> 1])

\* (year, month, day) of a comes before that of b.
LexLess(a, b) ==
    \/ a.year < b.year
    \/ a.year = b.year /\ a.month < b.month
    \/ a.year = b.year /\ a.month = b.month /\ a.day < b.day

\* C18: for every InvalidDayOfMonth error e = {year, month, day} that
\* Date::new returned, day being any u8, e.prev_valid() comes before
\* (year, month, day) and e.next_valid() after it.
C18_NeighboursEnclose ==
    ( /\ call.op \in {"prev_valid", "next_valid"}
      /\ call.after = "Date::new" ) =>
        /\ val.kind = "date"
        /\ call.op = "prev_valid" => LexLess(val.v, call.err)
        /\ call.op = "next_valid" => LexLess(call.err, val.v)

----------------------------------------------------------------------------
(* SpecUnix: from_unix_timestamp and to_unix_timestamp, one after the other *)

\* Seconds into a day: its first, its second, its middle and its last one.
DaySeconds == {0, 1, 12 * 3600, 24 * 3600 - 1}

\* 400-year cycles before and after year 0 that reach past the i16 years.
UnixCycles == ((I16_MIN \div 400) - 1) .. ((I16_MAX \div 400) + 1)

\* Day numbers since year 0: those around 1970-01-01, those around the start
\* of every 400-year cycle, those around the first and the last day of the
\* i16 years, and those at which UNIX_EPOCH + days leaves i32.
UnixDays ==
    {UNIX_EPOCH + i : i \in (-EdgeDays) .. EdgeDays}
        \cup {c * DAYS_IN_400_YEAR + i : c \in UnixCycles, i \in (-YearWindow) .. YearWindow}
        \cup {e + i : e \in {RefMinDay, RefMaxDay}, i \in (-YearWindow) .. YearWindow}
        \cup {I32_MAX - i : i \in 0 .. YearWindow}

\* Timestamps of the test from_unix_timestamp: 2020-06-20 00:00:00 and the
\* seconds around the end of that day.
TestTimestamps == {1592611200, 1592697599, 1592697600}

\* Timestamps whose day count does not fit i32 (hi * 2^20 + lo).
WideTimestamps ==
    {[hi |-> h, lo |-> l] : h \in {-(2^30), -(2^28), 2^28, 2^30}, l \in {0, 1, Limb - 1}}

InitUnix ==
    /\ \/ \E d \in UnixDays, r \in DaySeconds :
            origin = SecondsV(I64_add(I64_times_86400(I64_from_i32(d - UNIX_EPOCH)), r))
       \/ \E t \in TestTimestamps : origin = SecondsV(I64_from_i32(t))
       \/ \E w \in WideTimestamps : origin = SecondsV(w)
       \/ \E y \in WindowYears \cup TestYears \cup {1969, 1970}, m \in Months, d \in 1 .. 31 :
            /\ Date_new(y, m, d).ok
            /\ origin = DateV(Date_new(y, m, d).val)
       \/ \E y \in I16Years, md \in YearMarks :
            /\ Date_new(y, md[1], md[2]).ok
            /\ origin = DateV(Date_new(y, md[1], md[2]).val)
    /\ val = origin
    /\ call = NoCall
    /\ steps = 0

CallFromUnixTimestamp ==
    /\ val.kind = "seconds"
    /\ steps < 2
    /\ val' \in Outcomes(from_unix_timestamp(val.v), "date")
    /\ call' = [op |-> "from_unix_timestamp", arg |-> val.v]
    /\ steps' = steps + 1
    /\ UNCHANGED origin

CallToUnixTimestamp ==
    /\ val.kind = "date"
    /\ steps < 2
    /\ val' \in Outcomes(to_unix_timestamp(val.v), "seconds")
    /\ call' = [op |-> "to_unix_timestamp", arg |-> val.v]
    /\ steps' = steps + 1
    /\ UNCHANGED origin

NextUnix == CallFromUnixTimestamp \/ CallToUnixTimestamp

SpecUnix == InitUnix /\ [][NextUnix]_vars

\* The day number of 1970-01-01, by the calendar.
RefEpochDay == RefDays([year |-> 1970, month |-> 1, day |-> 1])

\* The timestamp of 00:00 of the day with day number n.
RefSeconds(n) == I64_times_86400(I64_from_i32(n - RefEpochDay))

\* A date of the calendar.
RefValidDate(d) ==
    d.month \in 1 .. 12 /\ 1 <= d.day /\ d.day <= RefMonthLen(d.year, d.month)

\* The timestamp lies in a day of an i16 year.
InYearRange(s) ==
    ~I64_less(s, RefSeconds(RefMinDay)) /\ I64_less(s, RefSeconds(RefMaxDay + 1))

C20_TimestampRoundTrip ==
    origin.kind = "date" =>
        LET epoch == [year |-> 1970, month |-> January, day |-> 1]
        IN  /\ val # Panic
            /\ days_since_year_zero(epoch) = [val |-> UNIX_EPOCH, ovf |-> FALSE]
            /\ steps = 1 =>
                  /\ val = SecondsV(I64_times_86400(I64_from_i32(
                              days_since_year_zero(origin.v).val
                                - days_since_year_zero(epoch).val)))
                  /\ origin.v = epoch => val = SecondsV(I64_from_i32(0))
            /\ steps = 2 => val = origin

----------------------------------------------------------------------------
(* SpecOrder: two dates are compared; the first one is stepped to its       *)
(* neighbours                                                               *)

\* Years of the dates compared: both ends of i16, the years around year 0
\* and around the first year of the 400-year cycle after the first one, and
\* years of the tests.
OrderYears ==
    {I16_MIN, I16_MIN + 400 - (I16_MIN % 400) - 1, I16_MIN + 400 - (I16_MIN % 400),
     -1, 0, 1, 1999, 2000, I16_MAX}

\* The days of a year that are compared: its marks, and 31 January.
OrderMarks == YearMarks \cup {<<1, 31>>, <<12, 1>>}

InitOrder ==
    /\ \E ya \in OrderYears, ma \in OrderMarks, yb \in OrderYears, mb \in OrderMarks :
        /\ Date_new(ya, ma[1], ma[2]).ok
        /\ Date_new(yb, mb[1], mb[2]).ok
        /\ origin = [kind |-> "date_pair", a |-> Date_new(ya, ma[1], ma[2]).val,
                     b |-> Date_new(yb, mb[1], mb[2]).val]
    /\ val = origin
    /\ call = NoCall
    /\ steps = 0

\* a < b
CallLess ==
    /\ origin.kind = "date_pair"
    /\ steps = 0
    /\ val' = BoolV(Date_lt(origin.a, origin.b))
    /\ call' = [op |-> "lt"]
    /\ steps' = 1
    /\ UNCHANGED origin

\* a.next()
CallNextOfFirst ==
    /\ origin.kind = "date_pair"
    /\ steps = 0
    /\ val' \in Outcomes(Date_next(origin.a), "date")
    /\ call' = [op |-> "next"]
    /\ steps' = 1
    /\ UNCHANGED origin

\* a.prev()
CallPrevOfFirst ==
    /\ origin.kind = "date_pair"
    /\ steps = 0
    /\ val' \in Outcomes(Date_prev(origin.a), "date")
    /\ call' = [op |-> "prev"]
    /\ steps' = 1
    /\ UNCHANGED origin

NextOrder == CallLess \/ CallNextOfFirst \/ CallPrevOfFirst

SpecOrder == InitOrder /\ [][NextOrder]_vars

\* C21: for all valid dates A, B: A < B iff (year, month, day) of A comes
\* before that of B, iff A.days_since_year_zero() < B.days_since_year_zero()
\* (both computed without a panic); A < A.next() unless A is the last date,
\* and A.prev() < A unless A is the first.
C21_OrderIsChronological ==
    origin.kind = "date_pair" =>
        /\ call.op = "lt" =>
            LET da == days_since_year_zero(origin.a)
                db == days_since_year_zero(origin.b)
            IN  /\ val.v = LexLess(origin.a, origin.b)
                /\ ~da.ovf /\ ~db.ovf
                /\ val.v = (da.val < db.val)
        /\ (call.op = "next" /\ RefDays(origin.a) < RefMaxDay) =>
              (val.kind = "date" /\ Date_lt(origin.a, val.v))
        /\ (call.op = "prev" /\ RefDays(origin.a) > RefMinDay) =>
              (val.kind = "date" /\ Date_lt(val.v, origin.a))

----------------------------------------------------------------------------
(* SpecDayOfYear: Year::with_day_of_year and Date::day_of_year, one after   *)
(* the other                                                                *)

\* Every day-of-year number up to this one is an input.
MaxDayOfYear == 400

\* u16 day-of-year numbers: the small ones, those around 2^8 and its
\* multiples past a year's length, and the largest.
DayOfYearNumbers ==
    (0 .. MaxDayOfYear)
        \cup {k * (2^8) + i : k \in {2, 3, 255}, i \in 0 .. YearWindow}
        \cup ((2^16 - 1 - YearWindow) .. (2^16 - 1))

InitDayOfYear ==
    /\ \/ \E y \in ArithYears, n \in DayOfYearNumbers :
            origin = [kind |-> "doy_args", year |-> y, n |-> n]
       \/ \E y \in ArithYears, m \in Months, d \in 1 .. 31 :
            /\ Date_new(y, m, d).ok
            /\ origin = DateV(Date_new(y, m, d).val)
    /\ val = origin
    /\ call = NoCall
    /\ steps = 0

\* y.with_day_of_year(n); or, for a date D, D.year().with_day_of_year(k) of
\* the k that D.day_of_year() returned.
CallWithDayOfYear ==
    /\ \/ /\ origin.kind = "doy_args"
          /\ steps = 0
          /\ val' = ResultV(Year_with_day_of_year(origin.year, origin.n))
       \/ /\ origin.kind = "date"
          /\ steps = 1
          /\ val' = ResultV(Year_with_day_of_year(origin.v.year, val.v))
    /\ call' = [op |-> "with_day_of_year"]
    /\ steps' = steps + 1
    /\ UNCHANGED origin

\* D.day_of_year(); or that of the date y.with_day_of_year(n) returned.
CallDayOfYear ==
    /\ \/ /\ origin.kind = "date"
          /\ steps = 0
          /\ val' = NumV(Date_day_of_year(origin.v))
       \/ /\ origin.kind = "doy_args"
          /\ steps = 1
          /\ val.v.ok
          /\ val' = NumV(Date_day_of_year(val.v.val))
    /\ call' = [op |-> "day_of_year"]
    /\ steps' = steps + 1
    /\ UNCHANGED origin

NextDayOfYear == CallWithDayOfYear \/ CallDayOfYear

SpecDayOfYear == InitDayOfYear /\ [][NextDayOfYear]_vars

\* C22: for every year y and u16 n, y.with_day_of_year(n) is Ok(D) iff
\* 1 <= n <= the length of y; D is then the valid date of year y that is the
\* n-th day of the year, and D.day_of_year() is n; otherwise it is
\* Err(InvalidDayOfYear{y, n}).  For every valid date D,
\* D.year().with_day_of_year(D.day_of_year()) is Ok(D).
C22_DayOfYearRoundTrip ==
    /\ (origin.kind = "doy_args" /\ steps = 1) =>
          IF 1 <= origin.n /\ origin.n <= (IF RefLeap(origin.year) THEN 366 ELSE 365)
          THEN /\ val.v.ok
               /\ val.v.val.year = origin.year
               /\ RefValidDate(val.v.val)
               /\ RefDaysBefore(origin.year, val.v.val.month) + val.v.val.day = origin.n
          ELSE val = ResultV(Err([kind |-> "InvalidDayOfYear", year |-> origin.year,
                                  day_of_year |-> origin.n]))
    /\ (origin.kind = "doy_args" /\ steps = 2) => val = NumV(origin.n)
    /\ (origin.kind = "date" /\ call.op = "with_day_of_year") =>
          val = ResultV(Ok(origin.v))

\* C22 witness: day 366 of the leap year 2020 is 31 December, whose
\* day_of_year() is 366 again.
C22_Witness ==
    /\ origin = [kind |-> "doy_args", year |-> 2020, n |-> 366]
    /\ steps = 2
    /\ val = NumV(366)

----------------------------------------------------------------------------
(* SpecMonth: Month::wrapping_add and Month::wrapping_sub with every i8     *)
(* count                                                                    *)

InitMonth ==
    /\ \E m \in Months, c \in I8_MIN .. I8_MAX :
        origin = [kind |-> "month_args", month |-> m, count |-> c]
    /\ val = origin
    /\ call = NoCall
    /\ steps = 0

CallWrappingAdd ==
    /\ origin.kind = "month_args"
    /\ steps = 0
    /\ val' = MonthV(wrapping_add(origin.month, origin.count))
    /\ call' = [op |-> "wrapping_add"]
    /\ steps' = 1
    /\ UNCHANGED origin

\* m.wrapping_sub(c); or .wrapping_sub(c) on what m.wrapping_add(c) returned.
CallWrappingSub ==
    /\ origin.kind = "month_args"
    /\ steps < 2
    /\ call.op \in {"none", "wrapping_add"}
    /\ val' = MonthV(wrapping_sub(IF steps = 0 THEN origin.month ELSE val.v, origin.count))
    /\ call' = [op |-> "wrapping_sub"]
    /\ steps' = steps + 1
    /\ UNCHANGED origin

NextMonth == CallWrappingAdd \/ CallWrappingSub

SpecMonth == InitMonth /\ [][NextMonth]_vars

\* C23: for every Month m and i8 count c, m.wrapping_add(c) is the month of
\* zero-based index ((m - 1) + c) mod 12 (non-negative modulo), and no step
\* of the computation leaves i8.
C23_WrappingAdd ==
    call.op = "wrapping_add" =>
        /\ val = MonthV((((origin.month - 1) + origin.count) % 12) + 1)
        /\ ~wrapping_add_steps(origin.month, origin.count).ovf

\* C23 witness: January.wrapping_add(-13) is December.
C23_Witness ==
    /\ call.op = "wrapping_add"
    /\ origin.month = January
    /\ origin.count = -13
    /\ val = MonthV(December)

\* C24: for every Month m and i8 count c, i8::MIN included, m.wrapping_sub(c)
\* is the month of zero-based index ((m - 1) - c) mod 12, the negation inside
\* it stays in i8, and m.wrapping_add(c).wrapping_sub(c) is m.
C24_WrappingSub ==
    call.op = "wrapping_sub" =>
        /\ InI8(-TruncRem(origin.count, 12))
        /\ steps = 1 => val = MonthV((((origin.month - 1) - origin.count) % 12) + 1)
        /\ steps = 2 => val = MonthV(origin.month)

\* C24 witness: adding and then subtracting i8::MIN months returns to March.
C24_Witness ==
    /\ call.op = "wrapping_sub"
    /\ steps = 2
    /\ origin.count = I8_MIN
    /\ origin.month = March
    /\ val = MonthV(March)

----------------------------------------------------------------------------
(* SpecText: a date is formatted and the string is parsed                   *)

\* Years with one to five digits, of both signs, and the years of the tests.
TextYears ==
    {I16_MIN, -10000, -9999, -1000, -999, -100, -99, -10, -9, -1,
     0, 1, 9, 10, 99, 100, 999, 1000, 9999, 10000, I16_MAX} \cup TestYears

\* Strings of the test parse.
TestTexts ==
    { <<"2", "0", "2", "0", "-", "0", "1", "-", "0", "2">>,
      <<"n", "o", "t", "-", "a", "-", "d", "a", "t", "e">>,
      <<"2", "0", "1", "9", "-", "3", "0", "-", "1", "2">> }

InitText ==
    /\ \/ \E y \in TextYears, m \in Months, d \in 1 .. 31 :
            /\ Date_new(y, m, d).ok
            /\ origin = DateV(Date_new(y, m, d).val)
       \/ \E t \in TestTexts : origin = TextV(t)
    /\ val = origin
    /\ call = NoCall
    /\ steps = 0

\* D.to_string()
CallDisplay ==
    /\ val.kind = "date"
    /\ steps = 0
    /\ val' = TextV(Date_fmt(val.v))
    /\ call' = [op |-> "to_string"]
    /\ steps' = 1
    /\ UNCHANGED origin

\* text.parse::<Date>()
CallFromStr ==
    /\ val.kind = "text"
    /\ steps < 2
    /\ val' = ResultV(from_str(val.v))
    /\ call' = [op |-> "from_str"]
    /\ steps' = steps + 1
    /\ UNCHANGED origin

NextText == CallDisplay \/ CallFromStr

SpecText == InitText /\ [][NextText]_vars

\* C25: for every valid Date D, of a negative year or a year of five digits
\* too, parsing the string that Display produces for D returns Ok(D).
C25_ParseInvertsFormat ==
    (origin.kind = "date" /\ call.op = "from_str") => val = ResultV(Ok(origin.v))

----------------------------------------------------------------------------
(* SpecAddDays: days are added to and subtracted from a date, twice in a row *)

\* The years of the tests, the century years after 2000, and the ends of the
\* range.
AddDaysYears == OpsYears \cup TestYears \cup {2100, 2200, 2300, 2400}

\* The numbers of days of the test add_days, and their negatives.
AddDaysDeltas ==
    LET tested == {0, 1, 2, 28, 31, 365, 366, 366 + 365, 4 * 365 + 1,
                   100 * 365 + 24, 100 * 365 + 25,
                   400 * 365 + 96, 400 * 365 + 97, 400 * 365 + 98}
    IN  tested \cup {-n : n \in tested}

\* So many next() or prev() calls in a row are compared with one add_days().
MaxIterated == 31

InitAddDays ==
    /\ \E y \in AddDaysYears, md \in YearMarks :
            /\ Date_new(y, md[1], md[2]).ok
            /\ origin = DateV(Date_new(y, md[1], md[2]).val)
    /\ val = origin
    /\ call = [op |-> "none", n |-> 0, total |-> 0]
    /\ steps = 0

\* val.add_days(n); total is the number of days added to the origin so far.
CallAddDays ==
    /\ val.kind = "date"
    /\ steps < MaxOps
    /\ \E n \in AddDaysDeltas :
        /\ KeepsDayInRange(origin.v, call.total + n)
        /\ val' \in Outcomes(add_days(val.v, n), "date")
        /\ call' = [op |-> "add_days", n |-> n, total |-> call.total + n]
    /\ steps' = steps + 1
    /\ UNCHANGED origin

\* val.sub_days(n)
CallSubDays ==
    /\ val.kind = "date"
    /\ steps < MaxOps
    /\ \E n \in AddDaysDeltas :
        /\ KeepsDayInRange(origin.v, call.total - n)
        /\ val' \in Outcomes(sub_days(val.v, n), "date")
        /\ call' = [op |-> "sub_days", n |-> n, total |-> call.total - n]
    /\ steps' = steps + 1
    /\ UNCHANGED origin

NextAddDays == CallAddDays \/ CallSubDays

SpecAddDays == InitAddDays /\ [][NextAddDays]_vars

\* n successive next() calls for n >= 0, -n successive prev() calls for n < 0.
RECURSIVE Iterated(_, _)
Iterated(d, n) ==
    IF n = 0 THEN d
    ELSE IF n > 0 THEN Iterated(Date_next(d).val, n - 1)
    ELSE Iterated(Date_prev(d).val, n + 1)

\* C26: for every valid Date D and every n with the result in range,
\* D.add_days(n) is a Date whose day count is D's plus n, the valid date n days
\* from D, equal to n next() (or -n prev()) calls; D.sub_days(n) is what
\* D.add_days(-n) is; add_days(0) is D; and days added one lot after another
\* arrive where their sum added at once does.
C26_AddDaysShiftsDayCount ==
    (origin.kind = "date" /\ call.op \in {"add_days", "sub_days"}) =>
        /\ val.kind = "date"
        /\ steps = 1 =>
              days_since_year_zero(val.v).val
                  = days_since_year_zero(origin.v).val + call.total
        /\ ValidDate(val.v)
        /\ RefDays(val.v) = RefDays(origin.v) + call.total
        /\ (-MaxIterated <= call.total /\ call.total <= MaxIterated) =>
              val.v = Iterated(origin.v, call.total)
        /\ (steps = 1 /\ call.op = "sub_days") =>
              val \in Outcomes(add_days(origin.v, -call.n), "date")
        /\ steps = 2 =>
              val \in Outcomes(add_days(origin.v, call.total), "date")

----------------------------------------------------------------------------
(* SpecRemaining: from a date, next() is applied day after day until the    *)
(* year is left; days_remaining_in_year() is called on the way.             *)

RemainingYears == {I16_MIN, -1, 0, 1, I16_MAX} \cup TestYears

InitRemaining ==
    /\ \E y \in RemainingYears, md \in OrderMarks :
            /\ Date_new(y, md[1], md[2]).ok
            /\ origin = DateV(Date_new(y, md[1], md[2]).val)
    /\ val = origin
    /\ call = [op |-> "none", of |-> origin.v]
    /\ steps = 0

\* val.next(), while val is of the origin's year and has a next day.
StepNext ==
    /\ val.kind = "date"
    /\ val.v.year = origin.v.year
    /\ KeepsDayInRange(val.v, 1)
    /\ val' \in Outcomes(Date_next(val.v), "date")
    /\ call' = [op |-> "next", of |-> val.v]
    /\ steps' = steps + 1
    /\ UNCHANGED origin

\* val.days_remaining_in_year()
CallDaysRemainingInYear ==
    /\ val.kind = "date"
    /\ val' \in Outcomes(days_remaining_in_year(val.v), "num")
    /\ call' = [op |-> "days_remaining_in_year", of |-> val.v]
    /\ UNCHANGED <<origin, steps>>

NextRemaining == StepNext \/ CallDaysRemainingInYear

SpecRemaining == InitRemaining /\ [][NextRemaining]_vars

\* The days from d to the end of its year, d included, by the calendar.
RefDaysRemaining(d) ==
    (365 * (d.year + 1) + RefLeapYearsBefore(d.year + 1)) - RefDays(d)

\* C27: for every valid Date D, D.days_remaining_in_year() is
\* total_days() - day_of_year() + 1, a number in 1..=366 that counts D itself:
\* total_days() on 1 January, 1 on 31 December, one less after each next()
\* within the year; next() applied that many times to D lands on 1 January of
\* the following year (where there is one), and fewer applications stay in
\* D's year.
C27_DaysRemainingInYear ==
    /\ call.op = "days_remaining_in_year" =>
          /\ val = NumV(RefDaysRemaining(call.of))
          /\ val.v = (IF RefLeap(call.of.year) THEN 366 ELSE 365)
                        - (RefDaysBefore(call.of.year, call.of.month) + call.of.day) + 1
          /\ val.v \in 1 .. 366
          /\ (call.of.month = 1 /\ call.of.day = 1) => val.v = Year_total_days(call.of.year)
          /\ (call.of.month = 12 /\ call.of.day = 31) => val.v = 1
          /\ call.of.year = origin.v.year => val.v + steps = RefDaysRemaining(origin.v)
    /\ call.op = "next" =>
          /\ val.kind = "date"
          /\ val.v.year = origin.v.year => steps < days_remaining_in_year(origin.v).val
          /\ val.v.year # origin.v.year =>
                /\ steps = days_remaining_in_year(origin.v).val
                /\ val.v = [year |-> origin.v.year + 1, month |-> January, day |-> 1]

\* The days remaining were asked for, on some day after the origin and on the
\* first day of the following year, reached by next().
C27_Witness ==
    /\ call.op = "days_remaining_in_year"
    /\ steps > 0
    /\ call.of.year = origin.v.year + 1
    /\ steps = days_remaining_in_year(origin.v).val
    /\ RefLeap(origin.v.year)

----------------------------------------------------------------------------
(* SpecTables: the month tables are looked up for a month and a day of it   *)

\* Years of the test start_day_of_year (-400..=400) and of the test
\* day_of_year, leap and non-leap.
TableYears == {-400, -100, -4, -1, 0, 1, 4, 100, 400} \cup TestYears

InitTables ==
    /\ \E y \in TableYears, m \in Months :
         \E d \in 1 .. days_in_month(m, has_leap_day(y)) :
            origin = [kind |-> "table_args", year |-> y, month |-> m, day |-> d]
    /\ val = origin
    /\ call = NoCall
    /\ steps = 0

\* YearMonth::new(year, month).day_of_year()
CallStartDayOfYear ==
    /\ steps = 0
    /\ val' = NumV(YearMonth_day_of_year(YearMonth_new(origin.year, origin.month)))
    /\ call' = [op |-> "year_month.day_of_year"]
    /\ steps' = 1
    /\ UNCHANGED origin

\* YearMonth::new(year, month).total_days()
CallTotalDays ==
    /\ steps = 0
    /\ val' = NumV(YearMonth_total_days(YearMonth_new(origin.year, origin.month)))
    /\ call' = [op |-> "year_month.total_days"]
    /\ steps' = 1
    /\ UNCHANGED origin

\* raw::day_of_year(month, day, leap)
CallRawDayOfYear ==
    /\ steps = 0
    /\ val' = NumV(day_of_year(origin.month, origin.day, has_leap_day(origin.year)))
    /\ call' = [op |-> "raw.day_of_year"]
    /\ steps' = 1
    /\ UNCHANGED origin

\* raw::month_and_day_from_day_of_year(n, leap) of the n that
\* raw::day_of_year returned.
CallMonthAndDayFromDayOfYear ==
    /\ steps = 1
    /\ call.op = "raw.day_of_year"
    /\ val' = ResultV(month_and_day_from_day_of_year(val.v, has_leap_day(origin.year)))
    /\ call' = [op |-> "raw.month_and_day_from_day_of_year"]
    /\ steps' = 2
    /\ UNCHANGED origin

NextTables ==
    CallStartDayOfYear \/ CallTotalDays \/ CallRawDayOfYear \/ CallMonthAndDayFromDayOfYear

SpecTables == InitTables /\ [][NextTables]_vars

\* The sum of total_days() of the first k months of year y.
RECURSIVE TotalDaysOfMonths(_, _)
TotalDaysOfMonths(y, k) ==
    IF k = 0 THEN 0
    ELSE TotalDaysOfMonths(y, k - 1) + YearMonth_total_days(YearMonth_new(y, k))

\* C28: the month tables agree, in leap and non-leap years: a month's
\* day_of_year() is 1 plus the total_days() of the earlier months of the year;
\* the twelve total_days() add up to the year's total_days(), 365 or 366; and
\* month_and_day_from_day_of_year gives back the month and the day that
\* day_of_year was given, for every day of every month.
C28_MonthTablesAgree ==
    /\ call.op = "year_month.day_of_year" =>
          val.v = 1 + TotalDaysOfMonths(origin.year, origin.month - 1)
    /\ call.op = "year_month.total_days" =>
          /\ val.v = TotalDaysOfMonths(origin.year, origin.month)
                        - TotalDaysOfMonths(origin.year, origin.month - 1)
          /\ TotalDaysOfMonths(origin.year, 12) = Year_total_days(origin.year)
          /\ Year_total_days(origin.year) = (IF RefLeap(origin.year) THEN 366 ELSE 365)
    /\ call.op = "raw.day_of_year" =>
          val.v = YearMonth_day_of_year(YearMonth_new(origin.year, origin.month))
                    + origin.day - 1
    /\ call.op = "raw.month_and_day_from_day_of_year" =>
          val = ResultV(Ok([month |-> origin.month, day |-> origin.day]))

\* A day after February of a leap year went to its day of the year and back.
C28_Witness ==
    /\ call.op = "raw.month_and_day_from_day_of_year"
    /\ has_leap_day(origin.year)
    /\ origin.month > February
    /\ val.v.ok

----------------------------------------------------------------------------
(* SpecInverse: next() and prev() are applied to a date, one after another  *)

InverseYears == WindowYears \cup TestYears

InitInverse ==
    /\ \E y \in InverseYears, m \in Months, d \in 1 .. 31 :
            /\ Date_new(y, m, d).ok
            /\ origin = DateV(Date_new(y, m, d).val)
    /\ val = origin
    /\ call = [op |-> "none", before |-> "none"]
    /\ steps = 0

\* val.next()
CallNext ==
    /\ val.kind = "date"
    /\ steps < MaxOps
    /\ val' \in Outcomes(Date_next(val.v), "date")
    /\ call' = [op |-> "next", before |-> call.op]
    /\ steps' = steps + 1
    /\ UNCHANGED origin

\* val.prev()
CallPrev ==
    /\ val.kind = "date"
    /\ steps < MaxOps
    /\ val' \in Outcomes(Date_prev(val.v), "date")
    /\ call' = [op |-> "prev", before |-> call.op]
    /\ steps' = steps + 1
    /\ UNCHANGED origin

NextInverse == CallNext \/ CallPrev

SpecInverse == InitInverse /\ [][NextInverse]_vars

IsFirstDate(d) == RefDays(d) = RefMinDay
IsLastDate(d) == RefDays(d) = RefMaxDay

\* C29: for every valid Date D but the first and the last one,
\* D.next().prev() == D and D.prev().next() == D; next() is one day later: the
\* following day of the month, or day 1 of the following month (1 January of
\* year + 1 after 31 December) from a month's last day; prev() is one day
\* earlier: from day 1 the last day of the previous month, 29 February exactly
\* in leap years.
C29_NextPrevInverse ==
    LET d == origin.v
    IN  (~IsFirstDate(d) /\ ~IsLastDate(d)) =>
          /\ (steps = 2 /\ call.op # call.before) => val = origin
          /\ (steps = 1 /\ call.op = "next") =>
                /\ val.kind = "date"
                /\ ValidDate(val.v)
                /\ RefDays(val.v) = RefDays(d) + 1
                /\ val.v = (IF d.day < RefMonthLen(d.year, d.month)
                            THEN [year |-> d.year, month |-> d.month, day |-> d.day + 1]
                            ELSE IF d.month < December
                            THEN [year |-> d.year, month |-> d.month + 1, day |-> 1]
                            ELSE [year |-> d.year + 1, month |-> January, day |-> 1])
          /\ (steps = 1 /\ call.op = "prev") =>
                /\ val.kind = "date"
                /\ ValidDate(val.v)
                /\ RefDays(val.v) = RefDays(d) - 1
                /\ val.v = (IF d.day > 1
                            THEN [year |-> d.year, month |-> d.month, day |-> d.day - 1]
                            ELSE IF d.month > January
                            THEN [year |-> d.year, month |-> d.month - 1,
                                  day |-> RefMonthLen(d.year, d.month - 1)]
                            ELSE [year |-> d.year - 1, month |-> December, day |-> 31])
                /\ (d.month = March /\ d.day = 1) =>
                      (val.v.day = 29 <=> RefLeap(d.year))

\* prev() from 1 March of a leap year, then next(), came back to 1 March.
C29_Witness ==
    /\ steps = 2
    /\ call = [op |-> "next", before |-> "prev"]
    /\ origin.v.month = March /\ origin.v.day = 1
    /\ RefLeap(origin.v.year)
    /\ val = origin

----------------------------------------------------------------------------
(* SpecFallbacks: the two functions that hold a fallback arm in the place   *)
(* of unreachable!() are called: from_days_since_year_zero on day counts,   *)
(* Month::wrapping_add on a month and a count.                              *)

InitFallbacks == InitFromDays \/ InitMonth

NextFallbacks == CallFromDaysSinceYearZero \/ CallWrappingAdd

SpecFallbacks == InitFallbacks /\ [][NextFallbacks]_vars

\* C30: the fallback arms are never taken.  In from_days_since_year_zero, for
\* any i32, year_of_four_year_cycle is in 0..=3 and day_of_year is in 1..=366
\* when it is 0 and in 1..=365 otherwise, month_and_day_from_day_of_year
\* returns Ok, and the month and day it returns, with year_of_four_year_cycle
\* == 0 as the leap flag, are those of the day in its 400-year cycle.  In
\* Month::wrapping_add, the number given to from_number is in 1..=12.
C30_FallbacksNotTaken ==
    /\ call.op = "from_days_since_year_zero" =>
          LET s == from_days_since_year_zero_steps(origin.v)
              d == [year |-> 4 * s.four_year_cycles + s.year_of_four_year_cycle,
                    month |-> s.month_and_day.val.month,
                    day |-> s.month_and_day.val.day]
          IN  /\ s.year_of_four_year_cycle \in 0 .. 3
              /\ s.day_of_year \in 1 .. (IF s.year_of_four_year_cycle = 0 THEN 366 ELSE 365)
              /\ s.month_and_day.ok
              /\ s.day_index = origin.v % DAYS_IN_400_YEAR
              /\ d.year \in 0 .. 399
              /\ ValidDate(d)
              /\ RefDays(d) = s.day_index
              /\ val.kind = "date" => (val.v.month = d.month /\ val.v.day = d.day)
    /\ call.op = "wrapping_add" =>
          wrapping_add_steps(origin.month, origin.count).number \in 1 .. 12

\* The last day of the first year of a 400-year cycle, day 366 of a year at
\* the head of its four, was converted.
C30_Witness ==
    /\ call.op = "from_days_since_year_zero"
    /\ from_days_since_year_zero_steps(origin.v).year_of_four_year_cycle = 0
    /\ from_days_since_year_zero_steps(origin.v).day_of_year = 366
    /\ origin.v % DAYS_IN_400_YEAR = 365
    /\ origin.v < 0
    /\ val.kind = "date"
    /\ val.v.month = December /\ val.v.day = 31

====
